---- MODULE Spec2Model ----
(***************************************************************************)
(* Model of PersistentChat (backups/persistent_chat - Copy.py and          *)
(* backups/persistent_chat-QwenEdited.py): the sliding-window RateLimiter, *)
(* the retrying _make_api_request, the rename-based _load_memory /         *)
(* _save_memory persistence and the chat() orchestration.                  *)
(*                                                                         *)
(* Time is counted in ticks of 1/TicksPerSecond second, so that            *)
(* datetime.now() has a sub-second part: with two ticks per second an even *)
(* instant has microsecond 0 and an odd one microsecond 500000.            *)
(***************************************************************************)
EXTENDS Integers, Sequences, FiniteSets, TLC

VARIABLES
    variant,      \* which of the two PersistentChat sources runs
    platform,     \* rename semantics of the host: "posix" or "windows"
    memory_file,  \* PersistentChat.memory_file, as [stem, suffix]
    fs,           \* the directory: path -> content
    session,      \* "none" | "ready" | "failed" (constructor raised)
    memory,       \* PersistentChat.memory.messages
    requests,     \* RateLimiter.requests
    now,          \* the wall clock, in ticks
    pc,           \* "idle" | "request" | "reqdone"
    attempt,      \* loop variable of _make_api_request
    message,      \* argument of the chat() call in progress
    prompt,       \* messages list handed to _make_api_request
    reqResult,    \* how _make_api_request ended
    outcomes,     \* transport outcome of each physical send of this call
    sleeps,       \* time.sleep() arguments of this call's retry loop
    recorded,     \* add_request() calls made by this call
    preMemory,    \* memory.messages when the last call started
    calls,        \* chat() calls that reached the network so far
    ret,          \* what the last chat() call gave its caller
    log,          \* one entry per call whose request gave a completion
    lastSave,     \* observation of the last _save_memory call
    lastLoad,     \* observation of the last _load_memory call
    events,       \* order of the limiter and transport calls of the last send
    lastCheck,    \* answer of the last direct can_make_request call
    tpc,          \* position of each thread that shares the session
    tlocal,       \* locals of each such thread
    history,      \* what the last get_chat_history call returned
    saver,        \* each session of a shared memory file, inside _save_memory
    gui,          \* ChatGUI: is_processing, the input area, worker threads
    monitor       \* ErrorMonitor: error_count and recent_errors

vars == <<variant, platform, memory_file, fs, session, memory, requests, now,
          pc, attempt, message, prompt, reqResult, outcomes, sleeps, recorded,
          preMemory, calls, ret, log, lastSave, lastLoad, events, lastCheck,
          tpc, tlocal, history, saver, gui, monitor>>

----------------------------------------------------------------------------
(* Bounds of the model *)

MaxTime == 1           \* no new call or idle tick starts after this instant
MaxCalls == 2          \* chat() calls that reach the network, per behaviour
MaxExchanges == 3      \* exchanges of the sessions of one memory file
TicksPerSecond == 2    \* resolution of the clock
MaxSends == 3          \* send events of one GUI window
MaxErrors == 12        \* log_error calls on one ErrorMonitor

(* Program constants *)

RETRY_ATTEMPTS == 3
RETRY_DELAY == 2
MAX_RECENT_ERRORS == 10

\* RateLimiter(max_requests, window_size): the constructor arguments.
\* PersistentChat passes RATE_LIMIT_REQUESTS and RATE_LIMIT_WINDOW; the model
\* scales them down so that the window fills within a few calls.
max_requests == 2
window_size == 3

Variants == {"Copy", "Qwen"}
Platforms == {"posix", "windows"}
FileNames == {[stem |-> "chat_memory", suffix |-> ".json"],
              [stem |-> "notes", suffix |-> ".txt"]}

SYSTEM_MESSAGE == "persona"
UserInputs == {"Hello", "", "  "}
Completions == {"Hi"}

----------------------------------------------------------------------------
(* Paths (pathlib) *)

\* str(Path): the file name
PathStr(f) == f.stem \o f.suffix

\* Path.with_suffix(s): the last suffix is replaced by s
WithSuffix(f, s) == f.stem \o s

\* backup_path of _save_memory
SaveBackupPath(f) == WithSuffix(f, ".json.bak")

\* Path(str(self.memory_file) + '.bak') of _save_memory
RestorePath(f) == PathStr(f) \o ".bak"

\* backup_path of _load_memory
QuarantinePath(f) == WithSuffix(f, ".json.backup")

AllPaths == UNION {{PathStr(f), SaveBackupPath(f), RestorePath(f),
                    QuarantinePath(f)} : f \in FileNames}

----------------------------------------------------------------------------
(* File contents *)

\* kind "json": a complete dump of a ChatMemory; "partial": the beginning of
\* such a dump; "invalid": other bytes that are not JSON; "badshape": JSON
\* that does not have the messages/role/content/timestamp fields.
Absent == [kind |-> "absent", messages |-> <<>>]
Invalid == [kind |-> "invalid", messages |-> <<>>]
BadShape == [kind |-> "badshape", messages |-> <<>>]

Exists(d, p) == d[p].kind # "absent"

\* the microsecond field of a datetime advances by this much per tick
MicrosPerTick == 1000000 \div TicksPerSecond

\* datetime.isoformat(): the microseconds are left out when they are 0
IsoFormat(t) ==
    IF t % TicksPerSecond = 0
    THEN <<t \div TicksPerSecond>>
    ELSE <<t \div TicksPerSecond, (t % TicksPerSecond) * MicrosPerTick>>

\* datetime.fromisoformat()
FromIsoFormat(s) ==
    IF Len(s) = 1
    THEN s[1] * TicksPerSecond
    ELSE s[1] * TicksPerSecond + s[2] \div MicrosPerTick

\* a dump of the latest exchange only
Serialize_LastExchange(msgs) ==
    [kind |-> "json",
     messages |-> [i \in 1..(IF Len(msgs) < 2 THEN Len(msgs) ELSE 2) |->
                     [role |-> msgs[Len(msgs) - 2 + i].role,
                      content |-> msgs[Len(msgs) - 2 + i].content,
                      timestamp |-> IsoFormat(msgs[Len(msgs) - 2 + i].timestamp)]]]

\* the dict json.dump receives in _save_memory
Serialize(msgs) ==
    [kind |-> "json",
     messages |-> [i \in 1..Len(msgs) |->
                     [role |-> msgs[i].role, content |-> msgs[i].content,
                      timestamp |-> IsoFormat(msgs[i].timestamp)]]]

PartialDump(msgs) == [kind |-> "partial", messages |-> Serialize(msgs).messages]

\* the list comprehension of _load_memory
Deserialize(c) ==
    [i \in 1..Len(c.messages) |->
        [role |-> c.messages[i].role, content |-> c.messages[i].content,
         timestamp |-> FromIsoFormat(c.messages[i].timestamp)]]

\* Path.rename(): replaces an existing target on POSIX, raises
\* FileExistsError on Windows
Rename(d, src, dst, plat) ==
    IF plat = "windows" /\ Exists(d, dst)
    THEN [ok |-> FALSE, fs |-> d]
    ELSE [ok |-> TRUE, fs |-> [d EXCEPT ![dst] = d[src], ![src] = Absent]]

WriteOutcomes == {"ok", "open_fails", "dump_fails"}

----------------------------------------------------------------------------
(* ChatMemoryStore: _save_memory and _load_memory *)

\* the except block of _save_memory, entered with the directory as the try
\* block left it; the rename in it is not guarded, so it can raise
SaveRestore(d, f, plat, renamed) ==
    IF Exists(d, RestorePath(f))
    THEN LET r == Rename(d, RestorePath(f), PathStr(f), plat)
         IN  [fs |-> r.fs, saved |-> FALSE, raised |-> ~r.ok,
              renamed |-> renamed]
    ELSE [fs |-> d, saved |-> FALSE, raised |-> FALSE, renamed |-> renamed]

\* the write of the try block and what follows it; w is how open/json.dump
\* ends
SaveWrite(d, f, msgs, w, plat, renamed) ==
    CASE w = "ok" ->
           LET written == [d EXCEPT ![PathStr(f)] = Serialize(msgs)]
           IN  [fs |-> IF Exists(written, RestorePath(f))
                       THEN [written EXCEPT ![RestorePath(f)] = Absent]
                       ELSE written,
                saved |-> TRUE, raised |-> FALSE, renamed |-> renamed]
      [] w = "open_fails" -> SaveRestore(d, f, plat, renamed)
      [] w = "dump_fails" ->
           SaveRestore([d EXCEPT ![PathStr(f)] = PartialDump(msgs)],
                       f, plat, renamed)

\* PersistentChat._save_memory
SaveMemory(d, f, msgs, w, plat) ==
    IF Exists(d, PathStr(f))
    THEN LET r == Rename(d, PathStr(f), SaveBackupPath(f), plat)
         IN  IF r.ok
             THEN SaveWrite(r.fs, f, msgs, w, plat, TRUE)
             ELSE SaveRestore(d, f, plat, FALSE)
    ELSE SaveWrite(d, f, msgs, w, plat, FALSE)

\* PersistentChat._load_memory
LoadMemory(d, f, plat) ==
    CASE ~Exists(d, PathStr(f)) ->
           [fs |-> d, messages |-> <<>>, raised |-> FALSE]
      [] d[PathStr(f)].kind = "json" ->
           [fs |-> d, messages |-> Deserialize(d[PathStr(f)]),
            raised |-> FALSE]
      [] d[PathStr(f)].kind \in {"invalid", "partial"} ->
           LET r == Rename(d, PathStr(f), QuarantinePath(f), plat)
           IN  [fs |-> r.fs, messages |-> <<>>, raised |-> ~r.ok]
      [] OTHER ->
           [fs |-> d, messages |-> <<>>, raised |-> FALSE]

----------------------------------------------------------------------------
(* RateLimiter *)

WindowLength == window_size * TicksPerSecond

\* a trim that removes nothing
Trim_Never(reqs, t) == reqs

\* a trim with an if in place of the while: at most one entry is removed
Trim_Once(reqs, t) ==
    IF reqs # <<>> /\ Head(reqs) < t - WindowLength
    THEN Tail(reqs)
    ELSE reqs

\* a trim that also drops the entry that is exactly window_size old
RECURSIVE Trim_Inclusive(_, _)
Trim_Inclusive(reqs, t) ==
    IF reqs # <<>> /\ Head(reqs) <= t - WindowLength
    THEN Trim_Inclusive(Tail(reqs), t)
    ELSE reqs

\* the while loop of can_make_request
RECURSIVE Trim(_, _)
Trim(reqs, t) ==
    IF reqs # <<>> /\ Head(reqs) < t - WindowLength
    THEN Trim(Tail(reqs), t)
    ELSE reqs

\* RateLimiter.can_make_request, as [requests after the trim, answer]
CanMakeRequest(reqs, t) ==
    LET kept == Trim(reqs, t)
    IN  [requests |-> kept, ok |-> Len(kept) < max_requests]

\* RateLimiter.add_request
AddRequest(reqs, t) == Append(reqs, t)

\* a wait that returns at once whatever the window holds
WaitForCapacity_NoWait(reqs, t) ==
    [requests |-> CanMakeRequest(reqs, t).requests, now |-> t]

\* a wait that sleeps two seconds between two checks
RECURSIVE WaitForCapacity_Slow(_, _)
WaitForCapacity_Slow(reqs, t) ==
    LET check == CanMakeRequest(reqs, t)
    IN  IF check.ok
        THEN [requests |-> check.requests, now |-> t]
        ELSE WaitForCapacity_Slow(check.requests, t + 2 * TicksPerSecond)

\* RateLimiter.wait_for_capacity: the window and the clock when it returns
RECURSIVE WaitForCapacity(_, _)
WaitForCapacity(reqs, t) ==
    LET check == CanMakeRequest(reqs, t)
    IN  IF check.ok
        THEN [requests |-> check.requests, now |-> t]
        ELSE WaitForCapacity(check.requests, t + 1 * TicksPerSecond)

----------------------------------------------------------------------------
(* RetryingClient: _make_api_request *)

\* what the transport does with one physical send
Outcomes == {"ok", "429", "4xx", "5xx", "timeout"}

\* the Retry-After header of a 429 response: absent, or a number of seconds
RetryAfterHeaders == {<<>>, <<1>>}

\* a wait that ignores the header
WaitTime_Default(h) == RETRY_DELAY

\* int(response.headers.get('Retry-After', RETRY_DELAY))
WaitTime(h) == IF h = <<>> THEN RETRY_DELAY ELSE h[1]

\* a backoff that sleeps RETRY_DELAY whatever the attempt
ExceptBranch_FixedDelay(att, cause) ==
    IF att < RETRY_ATTEMPTS - 1
    THEN [sleep |-> <<RETRY_DELAY>>, end |-> "continue", value |-> cause]
    ELSE [sleep |-> <<>>, end |-> "raise", value |-> cause]

\* an off-by-one test that also sleeps and continues after the last attempt
ExceptBranch_OneMore(att, cause) ==
    IF att < RETRY_ATTEMPTS
    THEN [sleep |-> <<RETRY_DELAY * (att + 1)>>, end |-> "continue",
          value |-> cause]
    ELSE [sleep |-> <<>>, end |-> "raise", value |-> cause]

\* the except branches of the attempt loop (all of them have this body)
ExceptBranch(att, cause) ==
    IF att < RETRY_ATTEMPTS - 1
    THEN [sleep |-> <<RETRY_DELAY * (att + 1)>>, end |-> "continue",
          value |-> cause]
    ELSE [sleep |-> <<>>, end |-> "raise", value |-> cause]

\* one iteration of the loop, httpx variant: does add_request run, in which
\* order wait_for_capacity, the send and add_request are called, what is
\* slept, and how the iteration ends
QwenAttempt(att, o, h, c) ==
    CASE o = "timeout" ->
           [recorded |-> FALSE, events |-> <<"wait", "send">>]
             @@ ExceptBranch(att, o)
      [] o = "429" ->
           [recorded |-> TRUE, events |-> <<"wait", "send", "record">>,
            sleep |-> <<WaitTime(h)>>, end |-> "continue", value |-> o]
      [] o \in {"4xx", "5xx"} ->
           [recorded |-> TRUE, events |-> <<"wait", "send", "record">>]
             @@ ExceptBranch(att, o)
      [] o = "ok" ->
           [recorded |-> TRUE, events |-> <<"wait", "send", "record">>,
            sleep |-> <<>>, end |-> "return", value |-> c]

\* one iteration of the loop, OpenAI-client variant: every failure is an
\* exception of completions.create, raised before add_request
CopyAttempt(att, o, h, c) ==
    IF o = "ok"
    THEN [recorded |-> TRUE, events |-> <<"wait", "send", "record">>,
          sleep |-> <<>>, end |-> "return", value |-> c]
    ELSE [recorded |-> FALSE, events |-> <<"wait", "send">>]
           @@ ExceptBranch(att, o)

\* the result of _make_api_request once an iteration has ended: a return, a
\* raise, or the for loop running out, which returns None
RequestResult(step, att) ==
    CASE step.end = "return" -> [kind |-> "text", value |-> step.value]
      [] step.end = "raise" -> [kind |-> "raise", value |-> step.value]
      [] step.end = "continue" /\ att + 1 >= RETRY_ATTEMPTS ->
           [kind |-> "none", value |-> step.value]
      [] OTHER -> [kind |-> "pending", value |-> step.value]

----------------------------------------------------------------------------
(* ConversationSession: chat *)

\* "not message or not message.strip()"
Strip(m) == IF m = "  " THEN "" ELSE m

\* a test that only rejects the empty string
IsBlank_NoStrip(m) == m = ""

IsBlank(m) == m = "" \/ Strip(m) = ""

RoleContent(msgs) ==
    [i \in 1..Len(msgs) |-> [role |-> msgs[i].role, content |-> msgs[i].content]]

NotSystem(m) == m.role # "system"

\* the messages list chat() builds, OpenAI-client variant
CopyPrompt(msgs, m) ==
    <<[role |-> "system", content |-> SYSTEM_MESSAGE]>>
      \o RoleContent(SelectSeq(msgs, NotSystem))
      \o <<[role |-> "user", content |-> m]>>

\* the messages list chat() builds, httpx variant
QwenPrompt(msgs, m) ==
    RoleContent(msgs) \o <<[role |-> "user", content |-> m]>>

\* Message(role=..., content=...): the timestamp defaults to datetime.now()
Message(role, content, t) ==
    [role |-> role, content |-> content, timestamp |-> t]

ValidationText == "Message cannot be empty"

\* an except block that logs and re-raises, as those of _make_api_request do
ChatExcept_Reraise(cause) == [kind |-> "raised", text |-> cause]

\* the except block of chat(): f"Error: {str(e)}"
ChatExcept(cause) == [kind |-> "text", text |-> "Error: " \o cause]

\* a return statement of chat()
ChatReturn(text) == [kind |-> "text", text |-> text]

----------------------------------------------------------------------------
(* The state machine *)

NoRet == [kind |-> "none", text |-> ""]

\* the threads that may call into one session, and a thread outside chat()
Threads == {1, 2}
NoLocals == [message |-> "", prompt |-> <<>>, attempt |-> 0, reply |-> "",
             wake |-> 0]
NoResult == [kind |-> "pending", value |-> ""]

\* the sessions (processes) that may be given the same memory file, and a
\* session that is not running
Sessions == {1, 2}
NoSaver == [pc |-> "down", messages |-> <<>>, at |-> "", prior |-> <<>>,
            result |-> "", faults |-> 0, precrash |-> <<>>]

\* ChatGUI.__init__ and ErrorMonitor.__init__
NoGui == [is_processing |-> FALSE, chat_history |-> <<>>, input |-> "",
          enabled |-> TRUE, main |-> "idle", threads |-> <<>>, after |-> 0,
          sends |-> 0, refused |-> 0]
NoMonitor == [error_count |-> 0, recent_errors |-> <<>>, arrived |-> <<>>]

\* Before the first PersistentChat is constructed: the memory file is absent
\* or was put there by the user; no companion file exists yet.
Init ==
    /\ variant \in Variants
    /\ platform \in Platforms
    /\ memory_file \in FileNames
    /\ \E c \in {Absent, Invalid, BadShape, Serialize(<<>>)} :
         fs = [p \in AllPaths |-> IF p = PathStr(memory_file) THEN c ELSE Absent]
    /\ session = "none"
    /\ memory = <<>>
    /\ requests = <<>>
    /\ now = 0
    /\ pc = "idle"
    /\ attempt = 0
    /\ message = ""
    /\ prompt = <<>>
    /\ reqResult = NoResult
    /\ outcomes = <<>>
    /\ sleeps = <<>>
    /\ recorded = 0
    /\ preMemory = <<>>
    /\ calls = 0
    /\ ret = NoRet
    /\ log = <<>>
    /\ lastSave = <<>>
    /\ lastLoad = <<>>
    /\ events = <<>>
    /\ lastCheck = <<>>
    /\ tpc = [t \in Threads |-> "idle"]
    /\ tlocal = [t \in Threads |-> NoLocals]
    /\ history = <<>>
    /\ saver = [s \in Sessions |-> NoSaver]
    /\ gui = NoGui
    /\ monitor = NoMonitor

\* the save before this one, in the same session, did not write its file
PrevSaveFailed == lastSave # <<>> /\ ~lastSave[1].saved

\* PersistentChat.__init__: load the memory, make a fresh RateLimiter
Construct ==
    /\ session = "none"
    /\ \E l \in {LoadMemory(fs, memory_file, platform)} :
           /\ fs' = l.fs
           /\ memory' = l.messages
           /\ session' = IF l.raised THEN "failed" ELSE "ready"
           /\ lastLoad' = <<[found |-> fs[PathStr(memory_file)].kind,
                             loaded |-> Len(l.messages),
                             raised |-> l.raised]>>
    /\ requests' = <<>>
    /\ log' = <<>>
    /\ ret' = NoRet
    /\ lastSave' = <<>>
    /\ preMemory' = <<>>
    /\ UNCHANGED <<variant, platform, memory_file, now, pc, attempt, message,
                   prompt, reqResult, outcomes, sleeps, recorded, calls>>
    /\ UNCHANGED <<events, lastCheck, tpc, tlocal, history,
                   saver, gui, monitor>>

\* the process ends between two calls; its memory and rate window are gone
Exit ==
    /\ session = "ready"
    /\ pc = "idle"
    /\ session' = "none"
    /\ memory' = <<>>
    /\ requests' = <<>>
    /\ UNCHANGED <<variant, platform, memory_file, fs, now, pc, attempt,
                   message, prompt, reqResult, outcomes, sleeps, recorded,
                   preMemory, calls, ret, log, lastSave, lastLoad>>
    /\ UNCHANGED <<events, lastCheck, tpc, tlocal, history,
                   saver, gui, monitor>>

\* time passes between two calls
Tick ==
    /\ session = "ready"
    /\ pc = "idle"
    /\ now < MaxTime
    /\ now' = now + 1
    /\ UNCHANGED <<variant, platform, memory_file, fs, session, memory,
                   requests, pc, attempt, message, prompt, reqResult, outcomes,
                   sleeps, recorded, preMemory, calls, ret, log, lastSave,
                   lastLoad>>
    /\ UNCHANGED <<events, lastCheck, tpc, tlocal, history,
                   saver, gui, monitor>>

\* chat(m) up to the call of _make_api_request; a blank message returns here
ChatBegin(m) ==
    /\ session = "ready"
    /\ pc = "idle"
    /\ now <= MaxTime
    /\ IF IsBlank(m)
       THEN /\ ret' = ChatReturn(ValidationText)
            /\ UNCHANGED <<message, prompt, pc, preMemory, calls>>
       ELSE /\ calls < MaxCalls
            /\ calls' = calls + 1
            /\ message' = m
            /\ preMemory' = memory
            /\ prompt' = IF variant = "Copy" THEN CopyPrompt(memory, m)
                         ELSE QwenPrompt(memory, m)
            /\ pc' = "request"
            /\ ret' = NoRet
    /\ UNCHANGED <<variant, platform, memory_file, fs, session, memory,
                   requests, now, attempt, reqResult, outcomes, sleeps,
                   recorded, log, lastSave, lastLoad>>
    /\ UNCHANGED <<events, lastCheck, tpc, tlocal, history,
                   saver, gui, monitor>>

\* one iteration of the attempt loop of _make_api_request: wait for capacity,
\* send (the transport answers o, with header h on a 429, or completion c),
\* record, and handle the answer including its sleep
Attempt(o, h, c) ==
    /\ pc = "request"
    /\ \E w \in {WaitForCapacity(requests, now)},
          step \in {IF variant = "Copy" THEN CopyAttempt(attempt, o, h, c)
                    ELSE QwenAttempt(attempt, o, h, c)} :
       LET slept == IF step.sleep = <<>> THEN 0 ELSE step.sleep[1]
           res == RequestResult(step, attempt)
       IN  /\ requests' = IF step.recorded THEN AddRequest(w.requests, w.now)
                          ELSE w.requests
           /\ recorded' = IF step.recorded THEN recorded + 1 ELSE recorded
           /\ now' = w.now + slept * TicksPerSecond
           /\ sleeps' = sleeps \o step.sleep
           /\ outcomes' = Append(outcomes, o)
           /\ events' = step.events
           /\ reqResult' = res
           /\ attempt' = IF step.end = "continue" THEN attempt + 1 ELSE attempt
           /\ pc' = IF res.kind = "pending" THEN "request" ELSE "reqdone"
    /\ UNCHANGED <<variant, platform, memory_file, fs, session, memory,
                   message, prompt, preMemory, calls, ret, log, lastSave,
                   lastLoad>>
    /\ UNCHANGED <<lastCheck, tpc, tlocal, history,
                   saver, gui, monitor>>

\* chat() after _make_api_request: append the two messages, save (the write
\* ends as w) and return; or the except block
ChatFinish(w) ==
    /\ pc = "reqdone"
    /\ reqResult.kind # "text" => w = "ok"    \* nothing is written then
    /\ pc' = "idle"
    /\ CASE reqResult.kind = "raise" ->
              /\ ret' = ChatExcept(reqResult.value)
              /\ UNCHANGED <<memory, fs, lastSave>>
         [] reqResult.kind = "none" ->
              \* Message(role="assistant", content=None) is rejected by the
              \* model validation, after the user message was appended
              /\ memory' = Append(memory, Message("user", message, now))
              /\ ret' = ChatExcept("validation error for Message")
              /\ UNCHANGED <<fs, lastSave>>
         [] reqResult.kind = "text" ->
              \E msgs \in {memory \o <<Message("user", message, now),
                                        Message("assistant", reqResult.value,
                                                now)>>} :
              \E s \in {SaveMemory(fs, memory_file, msgs, w, platform)} :
                  /\ memory' = msgs
                  /\ fs' = s.fs
                  /\ lastSave' = <<[messages |-> msgs, write |-> w,
                                    saved |-> s.saved,
                                    raised |-> s.raised,
                                    renamed |-> s.renamed,
                                    prevFailed |-> PrevSaveFailed]>>
                  /\ ret' = IF s.raised THEN ChatExcept("FileExistsError")
                            ELSE ChatReturn(reqResult.value)
    /\ log' = IF reqResult.kind = "text"
               THEN Append(log, [user |-> message, reply |-> reqResult.value,
                                 returned |-> ret'.text])
               ELSE log
    \* the locals of the call are gone
    /\ message' = ""
    /\ prompt' = <<>>
    /\ attempt' = 0
    /\ reqResult' = NoResult
    /\ outcomes' = <<>>
    /\ sleeps' = <<>>
    /\ recorded' = 0
    /\ events' = <<>>
    /\ UNCHANGED <<variant, platform, memory_file, session, requests, now,
                   preMemory, calls, lastLoad>>
    /\ UNCHANGED <<lastCheck, tpc, tlocal, history,
                   saver, gui, monitor>>

Next ==
    \/ Construct
    \/ Exit
    \/ Tick
    \/ \E m \in UserInputs : ChatBegin(m)
    \/ \E o \in Outcomes :
         \E h \in (IF o = "429" THEN RetryAfterHeaders ELSE {<<>>}) :
           \E c \in Completions : Attempt(o, h, c)
    \/ \E w \in WriteOutcomes : ChatFinish(w)

Spec == Init /\ [][Next]_vars

TypeOK ==
    /\ variant \in Variants
    /\ platform \in Platforms
    /\ memory_file \in FileNames
    /\ session \in {"none", "ready", "failed"}
    /\ pc \in {"idle", "request", "reqdone"}
    /\ attempt \in 0..RETRY_ATTEMPTS
    /\ now \in Nat
    /\ Len(outcomes) <= RETRY_ATTEMPTS

----------------------------------------------------------------------------
(* A RateLimiter driven directly *)

\* RateLimiter.__init__: an empty window; nothing else of the program runs
InitLimiter ==
    /\ Init
    /\ platform = "posix"
    /\ memory_file = [stem |-> "chat_memory", suffix |-> ".json"]
    /\ fs[PathStr(memory_file)] = Absent

\* a call of can_make_request: the window is trimmed and the answer given
LimiterCheck ==
    /\ \E c \in {CanMakeRequest(requests, now)} :
           /\ requests' = c.requests
           /\ lastCheck' = <<c.ok>>
    /\ UNCHANGED <<variant, platform, memory_file, fs, session, memory, now,
                   pc, attempt, message, prompt, reqResult, outcomes, sleeps,
                   recorded, preMemory, calls, ret, log, lastSave, lastLoad,
                   events, tpc, tlocal, history,
                   saver, gui, monitor>>

\* a call of add_request; it does not look at the capacity
LimiterRecord ==
    /\ Len(requests) <= max_requests
    /\ requests' = AddRequest(requests, now)
    /\ recorded' = recorded + 1
    /\ UNCHANGED <<variant, platform, memory_file, fs, session, memory, now,
                   pc, attempt, message, prompt, reqResult, outcomes, sleeps,
                   preMemory, calls, ret, log, lastSave, lastLoad, events,
                   lastCheck, tpc, tlocal, history,
                   saver, gui, monitor>>

\* time passes between two calls, up to a window after the last record
LimiterTick ==
    /\ now <= WindowLength + MaxTime
    /\ now' = now + 1
    /\ UNCHANGED <<variant, platform, memory_file, fs, session, memory,
                   requests, pc, attempt, message, prompt, reqResult, outcomes,
                   sleeps, recorded, preMemory, calls, ret, log, lastSave,
                   lastLoad, events, lastCheck, tpc, tlocal, history,
                   saver, gui, monitor>>

\* a call of wait_for_capacity: it returns, with the window trimmed, at the
\* first of its checks that finds capacity
LimiterWait ==
    /\ now <= WindowLength + MaxTime
    /\ \E w \in {WaitForCapacity(requests, now)} :
           /\ requests' = w.requests
           /\ now' = w.now
    /\ UNCHANGED <<variant, platform, memory_file, fs, session, memory, pc,
                   attempt, message, prompt, reqResult, outcomes, sleeps,
                   recorded, preMemory, calls, ret, log, lastSave, lastLoad,
                   events, lastCheck, tpc, tlocal, history,
                   saver, gui, monitor>>

NextLimiter ==
    \/ LimiterCheck
    \/ LimiterRecord
    \/ LimiterTick
    \/ LimiterWait

SpecLimiter == InitLimiter /\ [][NextLimiter]_vars

----------------------------------------------------------------------------
(* Two threads calling chat() on one PersistentChat; the code takes no lock,
   so a thread may be preempted between any two of the steps below *)

OtherVars == <<variant, platform, memory_file, session, pc, attempt, message,
               prompt, reqResult, outcomes, sleeps, recorded, preMemory, log,
               lastLoad, events, lastCheck, saver, gui, monitor>>

InitThreads ==
    /\ Init
    /\ platform = "posix"
    /\ memory_file = [stem |-> "chat_memory", suffix |-> ".json"]
    /\ fs[PathStr(memory_file)] = Absent

\* chat(m) up to the call of _make_api_request
ThreadBegin(t, m) ==
    /\ session = "ready"
    /\ tpc[t] = "idle"
    /\ IF IsBlank(m)
       THEN /\ ret' = ChatReturn(ValidationText)
            /\ UNCHANGED <<tpc, tlocal, calls>>
       ELSE /\ calls < MaxCalls
            /\ calls' = calls + 1
            /\ tlocal' = [tlocal EXCEPT ![t] =
                   [NoLocals EXCEPT
                      !.message = m,
                      !.prompt = IF variant = "Copy" THEN CopyPrompt(memory, m)
                                 ELSE QwenPrompt(memory, m)]]
            /\ tpc' = [tpc EXCEPT ![t] = "wait"]
            /\ UNCHANGED ret
    /\ history' = <<>>    \* the caller lets go of the list it held
    /\ UNCHANGED <<memory, requests, now, fs, lastSave>>
    /\ UNCHANGED OtherVars

\* wait_for_capacity: one can_make_request call; on False, time.sleep(1)
ThreadCheck(t) ==
    /\ tpc[t] = "wait"
    /\ \E c \in {CanMakeRequest(requests, now)} :
           /\ requests' = c.requests
           /\ IF c.ok
              THEN /\ tpc' = [tpc EXCEPT ![t] = "send"]
                   /\ UNCHANGED tlocal
              ELSE /\ tpc' = [tpc EXCEPT ![t] = "sleep"]
                   /\ tlocal' = [tlocal EXCEPT
                                   ![t].wake = now + 1 * TicksPerSecond]
    /\ UNCHANGED <<memory, now, fs, lastSave, calls, ret>>
    /\ UNCHANGED <<OtherVars, history>>

\* the rest of one loop iteration once wait_for_capacity has returned: the
\* send, add_request, and the handling of the answer up to its time.sleep
ThreadSend(t, o, h, c) ==
    /\ tpc[t] = "send"
    /\ \E att \in {tlocal[t].attempt} :
       \E step \in {IF variant = "Copy" THEN CopyAttempt(att, o, h, c)
                    ELSE QwenAttempt(att, o, h, c)} :
           /\ requests' = IF step.recorded THEN AddRequest(requests, now)
                          ELSE requests
           /\ CASE step.end = "return" ->
                     /\ tlocal' = [tlocal EXCEPT ![t].reply = step.value]
                     /\ tpc' = [tpc EXCEPT ![t] = "append"]
                     /\ UNCHANGED ret
                [] step.end = "raise" ->
                     /\ ret' = ChatExcept(step.value)
                     /\ tlocal' = [tlocal EXCEPT ![t] = NoLocals]
                     /\ tpc' = [tpc EXCEPT ![t] = "idle"]
                [] step.end = "continue" ->
                     /\ tlocal' = [tlocal EXCEPT
                           ![t].attempt = att + 1,
                           ![t].wake = now + step.sleep[1] * TicksPerSecond]
                     /\ tpc' = [tpc EXCEPT ![t] = "sleep"]
                     /\ UNCHANGED ret
    /\ UNCHANGED <<memory, now, fs, lastSave, calls>>
    /\ UNCHANGED <<OtherVars, history>>

\* time.sleep returns: back to wait_for_capacity, or the for loop is over
\* and _make_api_request returns None, which chat() cannot store
ThreadWake(t) ==
    /\ tpc[t] = "sleep"
    /\ now >= tlocal[t].wake
    /\ IF tlocal[t].attempt < RETRY_ATTEMPTS
       THEN /\ tpc' = [tpc EXCEPT ![t] = "wait"]
            /\ UNCHANGED <<memory, ret, tlocal>>
       ELSE /\ memory' = Append(memory,
                                Message("user", tlocal[t].message, now))
            /\ ret' = ChatExcept("validation error for Message")
            /\ tlocal' = [tlocal EXCEPT ![t] = NoLocals]
            /\ tpc' = [tpc EXCEPT ![t] = "idle"]
    /\ UNCHANGED <<requests, now, fs, lastSave, calls>>
    /\ UNCHANGED <<OtherVars, history>>

\* self.memory.messages.append(Message(role="user", ...))
ThreadAppendUser(t) ==
    /\ tpc[t] = "append"
    /\ memory' = Append(memory, Message("user", tlocal[t].message, now))
    /\ tpc' = [tpc EXCEPT ![t] = "append2"]
    /\ UNCHANGED <<requests, now, fs, lastSave, calls, ret, tlocal>>
    /\ UNCHANGED <<OtherVars, history>>

\* self.memory.messages.append(Message(role="assistant", ...)), the save
\* (its write ends as w) and the return
ThreadAppendAssistant(t, w) ==
    /\ tpc[t] = "append2"
    /\ \E msgs \in {Append(memory,
                             Message("assistant", tlocal[t].reply, now))} :
       \E s \in {SaveMemory(fs, memory_file, msgs, w, platform)} :
           /\ memory' = msgs
           /\ fs' = s.fs
           /\ lastSave' = <<[messages |-> msgs, write |-> w,
                             saved |-> s.saved, raised |-> s.raised,
                             renamed |-> s.renamed,
                             prevFailed |-> PrevSaveFailed]>>
           /\ ret' = IF s.raised THEN ChatExcept("FileExistsError")
                     ELSE ChatReturn(tlocal[t].reply)
    /\ tlocal' = [tlocal EXCEPT ![t] = NoLocals]
    /\ tpc' = [tpc EXCEPT ![t] = "idle"]
    /\ UNCHANGED <<requests, now, calls>>
    /\ UNCHANGED <<OtherVars, history>>

\* time passes, long enough for the first backoff of a thread to end
ThreadTick ==
    /\ session = "ready"
    /\ now < MaxTime + RETRY_DELAY * TicksPerSecond
    /\ now' = now + 1
    /\ UNCHANGED <<memory, requests, fs, lastSave, calls, ret, tpc, tlocal>>
    /\ UNCHANGED <<OtherVars, history>>

NextThreads ==
    \/ Construct
    \/ ThreadTick
    \/ \E t \in Threads :
         \/ \E m \in UserInputs : ThreadBegin(t, m)
         \/ ThreadCheck(t)
         \/ \E o \in Outcomes :
              \E h \in (IF o = "429" THEN RetryAfterHeaders ELSE {<<>>}) :
                \E c \in Completions : ThreadSend(t, o, h, c)
         \/ ThreadWake(t)
         \/ ThreadAppendUser(t)
         \/ \E w \in WriteOutcomes : ThreadAppendAssistant(t, w)

SpecThreads == InitThreads /\ [][NextThreads]_vars

----------------------------------------------------------------------------
(* One caller of chat(), step by step, with the clock advancing while it
   sleeps *)

Caller == CHOOSE t \in Threads : \A u \in Threads : t <= u

\* no call is still running at this time: each of the RETRY_ATTEMPTS
\* iterations of a call waits at most a window and a second, and then sleeps
\* at most RETRY_DELAY * RETRY_ATTEMPTS
LiveHorizon ==
    MaxTime + MaxCalls * RETRY_ATTEMPTS
                * (window_size + 1 + RETRY_DELAY * RETRY_ATTEMPTS)
                * TicksPerSecond

\* time.sleep in progress: the clock advances to the end of the sleep
LiveTick ==
    /\ tpc[Caller] = "sleep"
    /\ now < tlocal[Caller].wake
    /\ tlocal[Caller].wake <= LiveHorizon
    /\ now' = tlocal[Caller].wake
    /\ UNCHANGED <<memory, requests, fs, lastSave, calls, ret, tpc, tlocal>>
    /\ UNCHANGED <<OtherVars, history>>

\* a get_chat_history call that clears the list it has formatted
GetHistory_Clears ==
    /\ session = "ready"
    /\ tpc[Caller] = "idle"
    /\ history' = Serialize(memory).messages
    /\ memory' = <<>>
    /\ UNCHANGED <<variant, platform, memory_file, fs, session, requests, now,
                   pc, attempt, message, prompt, reqResult, outcomes, sleeps,
                   recorded, preMemory, calls, ret, log, lastSave, lastLoad,
                   events, lastCheck, tpc, tlocal, saver,
                   gui, monitor>>

\* PersistentChat.get_chat_history, called between two chat() calls
GetHistory ==
    /\ session = "ready"
    /\ tpc[Caller] = "idle"
    /\ history' = Serialize(memory).messages
    /\ UNCHANGED <<variant, platform, memory_file, fs, session, memory,
                   requests, now, pc, attempt, message, prompt, reqResult,
                   outcomes, sleeps, recorded, preMemory, calls, ret, log,
                   lastSave, lastLoad, events, lastCheck, tpc, tlocal, saver,
                   gui, monitor>>

NextLive ==
    \/ Construct
    \/ LiveTick
    \/ \E m \in UserInputs : ThreadBegin(Caller, m)
    \/ ThreadCheck(Caller)
    \/ \E o \in Outcomes :
         \E h \in (IF o = "429" THEN RetryAfterHeaders ELSE {<<>>}) :
           \E c \in Completions : ThreadSend(Caller, o, h, c)
    \/ ThreadWake(Caller)
    \/ ThreadAppendUser(Caller)
    \/ \E w \in WriteOutcomes : ThreadAppendAssistant(Caller, w)

\* the caller's thread keeps running, every send is answered or times out,
\* and time advances
LiveFairness ==
    /\ WF_vars(LiveTick)
    /\ WF_vars(ThreadCheck(Caller))
    /\ WF_vars(\E o \in Outcomes :
                 \E h \in (IF o = "429" THEN RetryAfterHeaders ELSE {<<>>}) :
                   \E c \in Completions : ThreadSend(Caller, o, h, c))
    /\ WF_vars(ThreadWake(Caller))
    /\ WF_vars(ThreadAppendUser(Caller))
    /\ WF_vars(\E w \in WriteOutcomes : ThreadAppendAssistant(Caller, w))

SpecLive == InitThreads /\ [][NextLive]_vars /\ LiveFairness

\* the same caller, also calling get_chat_history between its chat() calls
NextHistory ==
    \/ NextLive
    \/ GetHistory

SpecHistory == InitThreads /\ [][NextHistory]_vars

----------------------------------------------------------------------------
(* _save_memory step by step: every call it makes on the file system is a
   step of its own, so that another session given the same memory file, or
   the end of the process, can come between any two of them.  A session is
   [pc, messages, at, prior, result, faults, precrash]: its position, its
   ChatMemory, the path its open file is now found at ("" when it has none,
   or when that file was replaced or deleted), the valid content the target
   had when this save began, how the last save ended, the failed writes so
   far, and the persisted messages that were set aside in the backup when
   the process stopped in the middle of a save. *)

SaveVars == <<variant, platform, memory_file, session, memory, requests, now,
              pc, attempt, message, prompt, reqResult, outcomes, sleeps,
              recorded, preMemory, ret, log, lastSave, lastLoad, events,
              lastCheck, tpc, tlocal, history, gui, monitor>>

\* what the users of the sessions type
SessionInputs == {"Hello", "Bye"}

\* one exchange in the shape the two appends of chat() give it
Exchange(m, c, t) == <<Message("user", m, t), Message("assistant", c, t)>>

\* a file that open(..., 'w') has just created or truncated
Truncated == [kind |-> "partial", messages |-> <<>>]

\* the sessions that hold the file at p open
OpenAt(sv, p) == {s \in Sessions : sv[s].at = p}

\* the open files after src was renamed to dst: they follow the file
MoveHandles(sv, src, dst) ==
    [s \in Sessions |->
       [sv[s] EXCEPT !.at = IF sv[s].at = src THEN dst
                            ELSE IF sv[s].at = dst THEN "" ELSE sv[s].at]]

\* Path.rename() as one session sees it while others run: FileNotFoundError
\* when src is gone, FileExistsError on Windows when dst exists, and
\* PermissionError on Windows when src is open
FsRename(d, sv, src, dst, plat) ==
    IF ~Exists(d, src) \/ (plat = "windows" /\ OpenAt(sv, src) # {})
       \/ ~Rename(d, src, dst, plat).ok
    THEN [ok |-> FALSE, fs |-> d, saver |-> sv]
    ELSE [ok |-> TRUE, fs |-> Rename(d, src, dst, plat).fs,
          saver |-> MoveHandles(sv, src, dst)]

\* Path.unlink(): FileNotFoundError when p is gone, PermissionError on
\* Windows when p is open
FsUnlink(d, sv, p, plat) ==
    IF ~Exists(d, p) \/ (plat = "windows" /\ OpenAt(sv, p) # {})
    THEN [ok |-> FALSE, fs |-> d, saver |-> sv]
    ELSE [ok |-> TRUE, fs |-> [d EXCEPT ![p] = Absent],
          saver |-> MoveHandles(sv, p, "")]

\* Before any session is constructed: the memory file is absent or is a
\* valid file without messages; its name and the platform are free
InitSave ==
    /\ Init
    /\ variant = "Copy"    \* _save_memory is the same text in both sources
    /\ fs[PathStr(memory_file)] \in {Absent, Serialize(<<>>)}

\* session s is at position p of its save
At(s, p) == saver[s].pc = p

\* _save_memory of session s has ended as r
SaveEnds(sv, s, r) ==
    [sv EXCEPT ![s].pc = "idle", ![s].result = r]

\* PersistentChat.__init__ of session s: _load_memory.  Renaming a corrupt
\* file that another session holds open raises on Windows, out of the except
\* block and so out of the constructor
SessionStart(s) ==
    /\ At(s, "down")
    /\ IF /\ platform = "windows"
          /\ OpenAt(saver, PathStr(memory_file)) # {}
          /\ fs[PathStr(memory_file)].kind \in {"invalid", "partial"}
       THEN /\ saver' = [saver EXCEPT ![s].pc = "failed"]
            /\ UNCHANGED fs
       ELSE \E l \in {LoadMemory(fs, memory_file, platform)} :
              /\ fs' = l.fs
              /\ saver' = [(IF l.fs = fs THEN saver
                            ELSE MoveHandles(saver, PathStr(memory_file),
                                             QuarantinePath(memory_file)))
                             EXCEPT ![s].pc = IF l.raised THEN "failed"
                                              ELSE "idle",
                                    ![s].messages = l.messages]
    /\ UNCHANGED calls
    /\ UNCHANGED SaveVars

\* chat(m) of session s up to its call of _save_memory: the request gave c,
\* the two messages are appended
SessionExchange(s, m, c) ==
    /\ At(s, "idle")
    /\ calls < MaxExchanges
    /\ calls' = calls + 1
    /\ saver' = [saver EXCEPT
                   ![s].messages = saver[s].messages \o Exchange(m, c, now),
                   ![s].pc = "exists",
                   ![s].prior = <<>>,
                   ![s].result = ""]
    /\ UNCHANGED fs
    /\ UNCHANGED SaveVars

\* if self.memory_file.exists():
SaveTestExists(s) ==
    /\ At(s, "exists")
    /\ saver' = [saver EXCEPT
                   ![s].pc = IF Exists(fs, PathStr(memory_file))
                             THEN "rename" ELSE "open",
                   ![s].prior = IF fs[PathStr(memory_file)].kind = "json"
                                THEN <<fs[PathStr(memory_file)]>> ELSE <<>>]
    /\ UNCHANGED <<fs, calls>>
    /\ UNCHANGED SaveVars

\* a save that writes over the prior file in place, without moving it aside
SaveRename_InPlace(s) ==
    /\ At(s, "rename")
    /\ saver' = [saver EXCEPT ![s].pc = "open"]
    /\ UNCHANGED <<fs, calls>>
    /\ UNCHANGED SaveVars

\* self.memory_file.rename(backup_path); an exception leads to the except
\* block
SaveRename(s) ==
    /\ At(s, "rename")
    /\ \E r \in {FsRename(fs, saver, PathStr(memory_file),
                          SaveBackupPath(memory_file), platform)} :
         /\ fs' = r.fs
         /\ saver' = [r.saver EXCEPT ![s].pc = IF r.ok THEN "open"
                                               ELSE "restore"]
    /\ UNCHANGED calls
    /\ UNCHANGED SaveVars

\* open(self.memory_file, 'w'): the file is created or truncated, or open
\* raises (w = "open_fails")
SaveOpen(s, w) ==
    /\ At(s, "open")
    /\ IF w = "ok"
       THEN /\ fs' = [fs EXCEPT ![PathStr(memory_file)] = Truncated]
            /\ saver' = [saver EXCEPT ![s].pc = "dump",
                                      ![s].at = PathStr(memory_file)]
       ELSE /\ saver' = [saver EXCEPT ![s].pc = "restore",
                                      ![s].faults = 1]
            /\ UNCHANGED fs
    /\ UNCHANGED calls
    /\ UNCHANGED SaveVars

\* text written from the start of a file that was opened with 'w': the file
\* was truncated at the open, but when another session has since written a
\* longer text through a handle of its own, the end of that text stays
Overwrite(cur, text) ==
    IF Len(cur.messages) > Len(text.messages) THEN Invalid ELSE text

\* json.dump(..., f) and the end of the with block.  The bytes go to the
\* file that was opened, wherever it is now.  w = "dump_fails": json.dump
\* raises after part of the text was written
SaveDump(s, w) ==
    /\ At(s, "dump")
    /\ fs' = IF saver[s].at = "" THEN fs
             ELSE [fs EXCEPT ![saver[s].at] =
                     Overwrite(@, IF w = "ok"
                                  THEN Serialize(saver[s].messages)
                                  ELSE PartialDump(saver[s].messages))]
    /\ saver' = [saver EXCEPT
                   ![s].pc = IF w = "ok" THEN "cleanup" ELSE "restore",
                   ![s].at = "",
                   ![s].faults = IF w = "ok" THEN saver[s].faults ELSE 1]
    /\ UNCHANGED calls
    /\ UNCHANGED SaveVars

\* if Path(str(self.memory_file) + '.bak').exists(): in the try block
SaveTestBackup(s) ==
    /\ At(s, "cleanup")
    /\ saver' = IF Exists(fs, RestorePath(memory_file))
                THEN [saver EXCEPT ![s].pc = "unlink"]
                ELSE SaveEnds(saver, s, "saved")
    /\ UNCHANGED <<fs, calls>>
    /\ UNCHANGED SaveVars

\* Path(str(self.memory_file) + '.bak').unlink(); an exception leads to the
\* except block
SaveUnlink(s) ==
    /\ At(s, "unlink")
    /\ \E r \in {FsUnlink(fs, saver, RestorePath(memory_file), platform)} :
         /\ fs' = r.fs
         /\ saver' = IF r.ok THEN SaveEnds(r.saver, s, "saved")
                     ELSE [r.saver EXCEPT ![s].pc = "restore"]
    /\ UNCHANGED calls
    /\ UNCHANGED SaveVars

\* if Path(str(self.memory_file) + '.bak').exists(): in the except block
RestoreTest(s) ==
    /\ At(s, "restore")
    /\ saver' = IF Exists(fs, RestorePath(memory_file))
                THEN [saver EXCEPT ![s].pc = "putback"]
                ELSE SaveEnds(saver, s, "failed")
    /\ UNCHANGED <<fs, calls>>
    /\ UNCHANGED SaveVars

\* Path(str(self.memory_file) + '.bak').rename(self.memory_file); an
\* exception leaves _save_memory
RestoreRename(s) ==
    /\ At(s, "putback")
    /\ \E r \in {FsRename(fs, saver, RestorePath(memory_file),
                          PathStr(memory_file), platform)} :
         /\ fs' = r.fs
         /\ saver' = SaveEnds(r.saver, s, IF r.ok THEN "failed" ELSE "raised")
    /\ UNCHANGED calls
    /\ UNCHANGED SaveVars

InSave == {"exists", "rename", "open", "dump", "cleanup", "unlink", "restore",
           "putback"}

\* the process of session s stops inside _save_memory: its ChatMemory is
\* gone, its open file is closed as it is
Crash(s) ==
    /\ saver[s].pc \in InSave
    /\ saver' = [saver EXCEPT
                   ![s] = [NoSaver EXCEPT
                             !.faults = saver[s].faults,
                             !.precrash =
                               IF /\ saver[s].pc \in {"open", "dump"}
                                  /\ saver[s].prior # <<>>
                               THEN <<Deserialize(saver[s].prior[1])>>
                               ELSE saver[s].precrash]]
    /\ UNCHANGED <<fs, calls>>
    /\ UNCHANGED SaveVars

\* the steps of session s that a running process takes
SessionStep(s) ==
    \/ SessionStart(s)
    \/ \E m \in SessionInputs, c \in Completions : SessionExchange(s, m, c)
    \/ SaveTestExists(s)
    \/ SaveRename(s)
    \/ \E w \in {"ok", "open_fails"} : SaveOpen(s, w)
    \/ \E w \in {"ok", "dump_fails"} : SaveDump(s, w)
    \/ SaveTestBackup(s)
    \/ SaveUnlink(s)
    \/ RestoreTest(s)
    \/ RestoreRename(s)

\* one session on its memory file, whose process may stop during a save and
\* be started again
Writer == CHOOSE s \in Sessions : \A u \in Sessions : s <= u

NextSave ==
    \/ SessionStep(Writer)
    \/ Crash(Writer)

SpecSave == InitSave /\ [][NextSave]_vars

\* two sessions given the same memory file, each in a process of its own
NextShared == \E s \in Sessions : SessionStep(s)

SpecShared == InitSave /\ [][NextShared]_vars

----------------------------------------------------------------------------
(* ErrorMonitor *)

MonitorVars == <<variant, platform, memory_file, fs, session, memory, requests,
                 now, pc, attempt, message, prompt, reqResult, outcomes,
                 sleeps, recorded, preMemory, calls, ret, log, lastSave,
                 lastLoad, events, lastCheck, tpc, tlocal, history, saver, gui>>

\* the window before any event: ChatGUI.__init__ has run; the memory file of
\* its PersistentChat plays no part in what the window does
InitWindow ==
    /\ Init
    /\ variant = "Copy"
    /\ platform = "posix"
    /\ memory_file.suffix = ".json"
    /\ fs[PathStr(memory_file)] = Absent

\* error_entry: str(error_msg) and source, which is 'Unknown' when not given
ErrorEntries == {[message |-> "Network error", source |-> "chat_gui.py"],
                 [message |-> "Critical error", source |-> "Unknown"]}

\* log_error that drops the newest entry when the list is full
LogError_DropNewest(mon, entry) ==
    [mon EXCEPT !.error_count = mon.error_count + 1,
                !.recent_errors =
                   IF Len(mon.recent_errors) + 1 > MAX_RECENT_ERRORS
                   THEN mon.recent_errors
                   ELSE Append(mon.recent_errors, entry)]

\* ErrorMonitor.log_error: count, append, pop(0) when over MAX_RECENT_ERRORS
LogError(mon, entry) ==
    [mon EXCEPT !.error_count = mon.error_count + 1,
                !.recent_errors =
                   IF Len(mon.recent_errors) + 1 > MAX_RECENT_ERRORS
                   THEN Tail(Append(mon.recent_errors, entry))
                   ELSE Append(mon.recent_errors, entry)]

\* a call of log_error; arrived keeps every entry ever passed, for the claims
LogErrorCall(mon, entry) ==
    [LogError(mon, entry) EXCEPT !.arrived = Append(mon.arrived, entry)]

\* some caller logs an error
MonitorLog(entry) ==
    /\ Len(monitor.arrived) < MaxErrors
    /\ monitor' = LogErrorCall(monitor, entry)
    /\ UNCHANGED MonitorVars

NextMonitor == \E entry \in ErrorEntries : MonitorLog(entry)

SpecMonitor == InitWindow /\ [][NextMonitor]_vars

----------------------------------------------------------------------------
(* ChatGUI: send events and worker threads *)

GuiVars == <<variant, platform, memory_file, fs, session, memory, requests,
             now, pc, attempt, message, prompt, reqResult, outcomes, sleeps,
             recorded, preMemory, calls, ret, log, lastSave, lastLoad, events,
             lastCheck, tpc, tlocal, history, saver>>

\* what self.chat.chat(message) gives the worker: the reply, or an exception
ChatOutcomes == {"text", "ConnectionError", "Exception"}

\* the threads started so far
Workers == 1..Len(gui.threads)

\* worker i is at position p of _process_message
WorkerAt(i, p) == i \in Workers /\ gui.threads[i].pc = p

\* _add_message(sender, m): the entry appended to chat_history
Shown(sender, m) == [sender |-> sender, message |-> m]

\* the user edits the input area, which takes text only while it is enabled
GuiType(t) ==
    /\ gui.main = "idle"
    /\ gui.enabled
    /\ gui.input # t
    /\ gui' = [gui EXCEPT !.input = t]
    /\ UNCHANGED monitor
    /\ UNCHANGED GuiVars

\* _send_message, from the button or Ctrl-Return, up to "if message:";
\* sends counts the events, refused those that found is_processing set
GuiSendCheck ==
    /\ gui.main = "idle"
    /\ gui.sends < MaxSends
    /\ gui' = [gui EXCEPT !.sends = gui.sends + 1,
                          !.refused = IF gui.is_processing
                                      THEN gui.refused + 1 ELSE gui.refused,
                          !.main = IF gui.is_processing
                                   THEN "idle"
                                   ELSE IF Strip(gui.input) = ""
                                   THEN "idle" ELSE "sending"]
    /\ UNCHANGED monitor
    /\ UNCHANGED GuiVars

\* a send handler that starts the thread without the processing state
GuiSendStart_NoFlag ==
    /\ gui.main = "sending"
    /\ gui' = [gui EXCEPT
                 !.chat_history = Append(gui.chat_history,
                                         Shown("User", Strip(gui.input))),
                 !.threads = Append(gui.threads,
                                    [pc |-> "chat",
                                     message |-> Strip(gui.input),
                                     response |-> "", error |-> "",
                                     raised |-> FALSE]),
                 !.main = "idle"]
    /\ UNCHANGED monitor
    /\ UNCHANGED GuiVars

\* _send_message from "if message:" on: clear the input, show the message,
\* set is_processing, disable the widgets, start the thread
GuiSendStart ==
    /\ gui.main = "sending"
    /\ gui' = [gui EXCEPT
                 !.input = "",
                 !.chat_history = Append(gui.chat_history,
                                         Shown("User", Strip(gui.input))),
                 !.is_processing = TRUE,
                 !.enabled = FALSE,
                 !.threads = Append(gui.threads,
                                    [pc |-> "chat",
                                     message |-> Strip(gui.input),
                                     response |-> "", error |-> "",
                                     raised |-> FALSE]),
                 !.main = "idle"]
    /\ UNCHANGED monitor
    /\ UNCHANGED GuiVars

\* the main loop runs a scheduled _update_processing_state
GuiUpdate ==
    /\ gui.main = "idle"
    /\ gui.after > 0
    /\ gui' = [gui EXCEPT !.after = gui.after - 1,
                          !.enabled = ~gui.is_processing]
    /\ UNCHANGED monitor
    /\ UNCHANGED GuiVars

\* response = self.chat.chat(message)
WorkerChat(i, o, c) ==
    /\ WorkerAt(i, "chat")
    /\ gui' = [gui EXCEPT
                 !.threads[i] =
                    IF o = "text"
                    THEN [gui.threads[i] EXCEPT !.pc = "render",
                                                !.response = c]
                    ELSE [gui.threads[i] EXCEPT !.pc = "except",
                                                !.error = o]]
    /\ UNCHANGED monitor
    /\ UNCHANGED GuiVars

\* self._add_message("AI", response); an exception in it is handled by
\* "except Exception"
WorkerRender(i, r) ==
    /\ WorkerAt(i, "render")
    /\ gui' = IF r = "ok"
              THEN [gui EXCEPT
                      !.chat_history =
                         Append(gui.chat_history,
                                Shown("AI", gui.threads[i].response)),
                      !.threads[i].pc = "finally"]
              ELSE [gui EXCEPT !.threads[i].pc = "except",
                               !.threads[i].error = "Exception"]
    /\ UNCHANGED monitor
    /\ UNCHANGED GuiVars

\* an except block after which nothing more runs when it raises
WorkerExcept_NoFinally(i, r) ==
    /\ WorkerAt(i, "except")
    /\ monitor' = LogErrorCall(monitor,
                               [message |-> IF gui.threads[i].error
                                                 = "ConnectionError"
                                            THEN "Network error"
                                            ELSE "Error processing message",
                                source |-> "chat_gui.py"])
    /\ gui' = IF r = "ok"
              THEN [gui EXCEPT
                      !.chat_history =
                         Append(gui.chat_history,
                                Shown("AI", gui.threads[i].error)),
                      !.threads[i].pc = "finally"]
              ELSE [gui EXCEPT !.threads[i].pc = "done",
                               !.threads[i].raised = TRUE]
    /\ UNCHANGED GuiVars

\* the except blocks: log_error, then _add_message("AI", error_msg); an
\* exception in them leaves the thread through the finally block
WorkerExcept(i, r) ==
    /\ WorkerAt(i, "except")
    /\ monitor' = LogErrorCall(monitor,
                               [message |-> IF gui.threads[i].error
                                                 = "ConnectionError"
                                            THEN "Network error"
                                            ELSE "Error processing message",
                                source |-> "chat_gui.py"])
    /\ gui' = IF r = "ok"
              THEN [gui EXCEPT
                      !.chat_history =
                         Append(gui.chat_history,
                                Shown("AI", gui.threads[i].error)),
                      !.threads[i].pc = "finally"]
              ELSE [gui EXCEPT !.threads[i].pc = "finally",
                               !.threads[i].raised = TRUE]
    /\ UNCHANGED GuiVars

\* finally: self.is_processing = False
WorkerFinally(i) ==
    /\ WorkerAt(i, "finally")
    /\ gui' = [gui EXCEPT !.is_processing = FALSE,
                          !.threads[i].pc = "after"]
    /\ UNCHANGED monitor
    /\ UNCHANGED GuiVars

\* finally: self.root.after(0, self._update_processing_state); the thread ends
WorkerAfter(i) ==
    /\ WorkerAt(i, "after")
    /\ gui' = [gui EXCEPT !.after = gui.after + 1,
                          !.threads[i].pc = "done"]
    /\ UNCHANGED monitor
    /\ UNCHANGED GuiVars

RenderOutcomes == {"ok", "raises"}

\* the steps of the worker threads
WorkerStep ==
    \E i \in 1..MaxSends :
       \/ \E o \in ChatOutcomes, c \in Completions : WorkerChat(i, o, c)
       \/ \E r \in RenderOutcomes : WorkerRender(i, r)
       \/ \E r \in RenderOutcomes : WorkerExcept(i, r)
       \/ WorkerFinally(i)
       \/ WorkerAfter(i)

NextGui ==
    \/ \E t \in UserInputs : GuiType(t)
    \/ GuiSendCheck
    \/ GuiSendStart
    \/ GuiUpdate
    \/ WorkerStep

SpecGui == InitWindow /\ [][NextGui]_vars

\* a started thread runs on, and the main loop runs its handlers
GuiFairness ==
    /\ WF_vars(WorkerStep)
    /\ WF_vars(GuiSendStart)
    /\ WF_vars(GuiUpdate)

SpecGuiLive == InitWindow /\ [][NextGui]_vars /\ GuiFairness

----------------------------------------------------------------------------
(* Claims *)

Target == PathStr(memory_file)

\* a step in which chat() returns from a call that reached the network
ChatReturns == pc = "reqdone" /\ pc' = "idle"

\* a step in which _save_memory ran
SaveRuns == ChatReturns /\ reqResult.kind = "text"

\* a step in which _load_memory ran
LoadRuns == session = "none" /\ session' # "none"

Last(q) == q[Len(q)]

RECURSIVE Flatten(_)
Flatten(q) ==
    IF q = <<>> THEN <<>>
    ELSE <<[role |-> "user", content |-> Head(q).user],
           [role |-> "assistant", content |-> Head(q).reply]>>
         \o Flatten(Tail(q))

CountIn(q, S) == Cardinality({i \in 1..Len(q) : q[i] \in S})

\* C1: once a save has returned, the memory file, when it exists, is never a
\* partially written dump.
C1_NeverPartialFile ==
    (lastSave # <<>> /\ pc = "idle") => fs[Target].kind # "partial"

\* C2: a save whose write fails after the prior file was renamed away leaves
\* the memory file with the content it had before the save, and no .bak file.
C2_FailedWriteRollsBack ==
    [][(SaveRuns /\ lastSave'[1].renamed /\ lastSave'[1].write # "ok")
         => /\ fs'[Target] = fs[Target]
            /\ ~Exists(fs', SaveBackupPath(memory_file))
            /\ ~Exists(fs', RestorePath(memory_file))]_vars

\* C3: a load by a fresh session that follows a save whose write was not made
\* to fail yields the saved messages, equal in role, content and timestamp.
C3_SaveLoadRoundTrip ==
    [][(LoadRuns /\ lastSave # <<>> /\ lastSave[1].write = "ok")
         => /\ session' = "ready"
            /\ memory' = lastSave[1].messages]_vars

\* C4: a load that finds invalid JSON returns empty memory without raising,
\* and afterwards the .backup file holds the bytes of the corrupt file and
\* the memory file path does not.
C4_CorruptFileQuarantined ==
    [][(LoadRuns /\ fs[Target].kind \in {"invalid", "partial"})
         => /\ session' = "ready"
            /\ memory' = <<>>
            /\ fs'[QuarantinePath(memory_file)] = fs[Target]
            /\ ~Exists(fs', Target)]_vars

\* C5: a load that finds invalid JSON while a .backup file exists leaves that
\* .backup file as it is and still returns empty memory without raising.
C5_ExistingBackupKept ==
    [][(/\ LoadRuns
        /\ fs[Target].kind \in {"invalid", "partial"}
        /\ Exists(fs, QuarantinePath(memory_file)))
         => /\ session' = "ready"
            /\ memory' = <<>>
            /\ fs'[QuarantinePath(memory_file)]
                 = fs[QuarantinePath(memory_file)]]_vars

\* C6: a chat() call whose request delivers no completion text leaves the
\* message sequence as it was before the call.
C6_FailureKeepsMemory ==
    [][(ChatReturns /\ reqResult.kind # "text") => memory' = preMemory]_vars

NonDecreasing(msgs) ==
    \A i \in 1..Len(msgs) - 1 : msgs[i].timestamp <= msgs[i + 1].timestamp

\* C7: in a session that started from empty memory, between calls the history
\* is exactly one user message and one assistant message per successful
\* exchange, the assistant content being what chat() returned, in call order
\* with non-decreasing timestamps.
C7_TwoMessagesPerExchange ==
    (session = "ready" /\ pc = "idle" /\ lastLoad[1].loaded = 0)
      => /\ RoleContent(memory) = Flatten(log)
         /\ \A i \in 1..Len(log) : log[i].returned = log[i].reply
         /\ NonDecreasing(memory)

\* C8: every chat() call that has returned gave its caller a text.
C8_ChatReturnsText ==
    (pc = "idle" /\ ret # NoRet) => ret.kind = "text"

\* a call returned the text of an error that _save_memory let escape
C8_Witness ==
    /\ pc = "idle"
    /\ ret = [kind |-> "text", text |-> "Error: FileExistsError"]

Transient == {"5xx", "timeout"}

\* C9: 429 responses do not use up the attempt budget: a request that ends
\* without a completion after only transient failures and 429 responses has
\* had RETRY_ATTEMPTS transient failures, and it does not end on a 429.
C9_RateLimitKeepsBudget ==
    (pc = "reqdone" /\ reqResult.kind # "text" /\ "4xx" \notin
        {outcomes[i] : i \in 1..Len(outcomes)})
      => /\ Last(outcomes) # "429"
         /\ CountIn(outcomes, Transient) = RETRY_ATTEMPTS

\* C10: a request whose send is answered with a 4xx other than 429 ends at
\* once: it has made that one send and has not slept.
C10_ClientErrorNotRetried ==
    (outcomes # <<>> /\ outcomes[1] = "4xx")
      => /\ pc = "reqdone"
         /\ reqResult.kind = "raise"
         /\ Len(outcomes) = 1
         /\ sleeps = <<>>

\* C11: a request whose sends are answered 5xx, 5xx, success has ended with
\* the completion text after exactly these three sends, and its backoff
\* sleeps were RETRY_DELAY * 1 and then RETRY_DELAY * 2.
C11_TwoFailuresThenSuccess ==
    (outcomes = <<"5xx", "5xx", "ok">>)
      => /\ pc = "reqdone"
         /\ reqResult.kind = "text"
         /\ reqResult.value \in Completions
         /\ sleeps = <<RETRY_DELAY * 1, RETRY_DELAY * 2>>

C11_Witness ==
    /\ outcomes = <<"5xx", "5xx", "ok">>
    /\ reqResult.kind = "text"
    /\ pc = "reqdone"

AllTransient == \A i \in 1..Len(outcomes) : outcomes[i] \in Transient

\* C12: while every send has failed with a timeout or 5xx, the request goes
\* on until RETRY_ATTEMPTS sends were made, having slept once after each send
\* but the last, and then raises an error carrying the last cause.
C12_ExhaustedAfterBudget ==
    (outcomes # <<>> /\ AllTransient)
      => IF Len(outcomes) < RETRY_ATTEMPTS
         THEN /\ pc = "request"
              /\ Len(sleeps) = Len(outcomes)
         ELSE /\ pc = "reqdone"
              /\ Len(outcomes) = RETRY_ATTEMPTS
              /\ Len(sleeps) = RETRY_ATTEMPTS - 1
              /\ reqResult.kind = "raise"
              /\ reqResult.value = Last(outcomes)

C12_Witness ==
    /\ pc = "reqdone"
    /\ outcomes = <<"timeout", "5xx", "timeout">>
    /\ reqResult = [kind |-> "raise", value |-> "timeout"]
    /\ sleeps = <<RETRY_DELAY * 1, RETRY_DELAY * 2>>

\* C13: every physical send is recorded in the rate window exactly once: the
\* add_request calls of a request are as many as its sends, whether they
\* succeeded or failed.
C13_EverySendRecorded == recorded = Len(outcomes)

Position(q, x) == CHOOSE i \in 1..Len(q) : q[i] = x
Occurs(q, x) == \E i \in 1..Len(q) : q[i] = x

\* C14: for every physical send the steps are in the order wait for
\* capacity, record, send: no request is issued before its own record.
C14_RecordBeforeSend ==
    (events # <<>>)
      => /\ Occurs(events, "wait") /\ Occurs(events, "record")
         /\ Occurs(events, "send")
         /\ Position(events, "wait") < Position(events, "record")
         /\ Position(events, "record") < Position(events, "send")

\* C15: for a single session, after any sequence of requests and any
\* passage of time, the rate window once trimmed never holds more than
\* max_requests entries.
C15_WindowWithinLimit ==
    Len(CanMakeRequest(requests, now).requests) <= max_requests

\* the third send of one call found the window full, waited for the oldest
\* entry to leave it, and fills the window again
C15_Witness ==
    /\ recorded = RETRY_ATTEMPTS
    /\ Len(sleeps) = 2
    /\ now > MaxTime + (sleeps[1] + sleeps[2]) * TicksPerSecond
    /\ Len(CanMakeRequest(requests, now).requests) = max_requests

WhitespaceOnly == {m \in UserInputs : m = "" \/ m = "  "}

\* C19: chat() called with an empty or whitespace-only message returns the
\* fixed validation message, leaves the memory, the rate window and the files
\* unchanged, and sends nothing.
C19_BlankMessageRejected ==
    [][\A m \in WhitespaceOnly :
         ChatBegin(m) => /\ ret' = ChatReturn(ValidationText)
                         /\ pc' = "idle"
                         /\ UNCHANGED <<memory, requests, fs, calls, outcomes,
                                        recorded, events>>]_vars

\* a whitespace-only message was answered in a session that holds an exchange
C19_Witness ==
    /\ pc = "idle"
    /\ memory # <<>>
    /\ ret = ChatReturn(ValidationText)

\* C20: if the save fails after a successful send, chat() still returns the
\* assistant text of that exchange, and the memory retains both messages of
\* the exchange.
C20_SaveFailureStillAnswers ==
    [][(SaveRuns /\ ~lastSave'[1].saved)
         => /\ ret' = ChatReturn(reqResult.value)
            /\ memory' = memory \o <<Message("user", message, now),
                                     Message("assistant", reqResult.value, now)>>
      ]_vars

\* the recorded instants that are not older than the window at time t
WithinWindow(reqs, t) == {i \in 1..Len(reqs) : t - reqs[i] <= WindowLength}

\* C16: after max_requests records within the window can_make_request is
\* false, it stays false while all of them are within the window, and it is
\* true again once the oldest is older than window_size: every answer is
\* false exactly when max_requests or more recorded instants are within the
\* window.
C16_AnswerFollowsWindow ==
    [][LimiterCheck
         => lastCheck' = <<Cardinality(WithinWindow(requests, now))
                             < max_requests>>]_vars

\* the limiter was filled, and a later check found that records had aged out
C16_Witness ==
    /\ session = "none"
    /\ recorded >= max_requests
    /\ lastCheck = <<TRUE>>
    /\ requests # <<>>
    /\ Len(requests) < recorded
    /\ Len(requests) < max_requests

\* C17: with two callers sharing one RateLimiter, no interleaving lets both
\* pass the capacity check for the last free slot: the sends recorded in the
\* trailing window never exceed max_requests.
C17_SharedLimiterWithinLimit ==
    Cardinality(WithinWindow(requests, now)) <= max_requests

InFlight == {t \in Threads : tpc[t] # "idle"}

\* every user message that has a successor is followed by an assistant message
AppendsPaired ==
    \A i \in 1..Len(memory) :
      (memory[i].role = "user" /\ i < Len(memory))
        => memory[i + 1].role = "assistant"

\* C18: at most one exchange is in flight per session (a second chat() call
\* is rejected or queued), and the appends of two exchanges are never
\* interleaved: each user message is immediately followed by its own
\* assistant message.
C18_OneExchangeInFlight ==
    /\ Cardinality(InFlight) <= 1
    /\ AppendsPaired

\* C21: after every chat() call that returns an assistant reply, the memory
\* file decodes to the message sequence of the in-process memory. Stated for
\* the calls whose file write was not made to fail by the environment.
C21_FileFollowsMemory ==
    [][(/\ SaveRuns
        /\ lastSave'[1].write = "ok"
        /\ ret' = ChatReturn(reqResult.value))
         => /\ fs'[Target].kind = "json"
            /\ Deserialize(fs'[Target]) = memory']_vars

\* C22: once a save has completed successfully, no .bak companion of the
\* memory file exists: neither the file the save renamed the prior content to
\* nor the file it looks for afterwards.
C22_NoBackupAfterSave ==
    [][(SaveRuns /\ lastSave'[1].saved)
         => /\ ~Exists(fs', SaveBackupPath(memory_file))
            /\ ~Exists(fs', RestorePath(memory_file))]_vars

\* C23: the prompt of every request is the persona preamble, then every
\* message of the memory in stored order, then the new user message.
C23_PromptHasPreamble ==
    (pc = "request")
      => prompt = <<[role |-> "system", content |-> SYSTEM_MESSAGE]>>
                    \o RoleContent(memory)
                    \o <<[role |-> "user", content |-> message]>>

\* C24: every chat() call eventually returns, given that time advances and
\* every send is answered or times out: neither the wait for capacity nor
\* the retry loop, repeated 429 responses included, goes on forever.
C24_ChatReturns == (tpc[Caller] # "idle") ~> (tpc[Caller] = "idle")

\* a second call has returned, after the sleeps of the retry loop and with
\* the window full again
C24_Witness ==
    /\ tpc[Caller] = "idle"
    /\ calls > 0
    /\ Len(requests) = max_requests
    /\ now > RETRY_DELAY * RETRY_ATTEMPTS * TicksPerSecond

Unloadable == {"invalid", "partial", "badshape"}

\* C26: a load that finds a memory file it cannot turn into a ChatMemory
\* (invalid JSON, or JSON without the expected fields) returns empty memory,
\* and the content of the file is then under the .backup name.
C26_UnloadableFileQuarantined ==
    [][(LoadRuns /\ fs[Target].kind \in Unloadable)
         => /\ session' = "ready"
            /\ memory' = <<>>
            /\ fs'[QuarantinePath(memory_file)] = fs[Target]]_vars

\* the entries of a occur in b, in the order of a
RECURSIVE IsSubSeq(_, _)
IsSubSeq(a, b) ==
    IF a = <<>> THEN TRUE
    ELSE IF b = <<>> THEN FALSE
    ELSE IF Head(a) = Head(b) THEN IsSubSeq(Tail(a), Tail(b))
    ELSE IsSubSeq(a, Tail(b))

\* C27: a failed save is made good by the next exchange: once the save of
\* one exchange has failed and the save of the next exchange of the session
\* has succeeded, the file holds the messages of the memory, among them, in
\* order, those of both exchanges and of every earlier one of the session.
C27_NextSaveCatchesUp ==
    (lastSave # <<>> /\ lastSave[1].saved /\ lastSave[1].prevFailed)
      => /\ Len(log) >= 2
         /\ fs[Target].kind = "json"
         /\ Deserialize(fs[Target]) = lastSave[1].messages
         /\ IsSubSeq(Flatten(log), RoleContent(Deserialize(fs[Target])))

\* the save after a failed one has written four messages
C27_Witness ==
    /\ pc = "idle"
    /\ lastSave # <<>>
    /\ lastSave[1].prevFailed
    /\ lastSave[1].saved
    /\ fs[Target].kind = "json"
    /\ Len(fs[Target].messages) = 4

IsAssistant(m) == m.role = "assistant"

\* C28: exchanges of one session are serialized: when an exchange enters the
\* history, the prompt that was built for it contains the messages of every
\* exchange that got its completion into the history before it, in order.
C28_PromptHoldsEarlierExchanges ==
    \A t \in Threads :
      (tpc[t] = "append2")
        => IsSubSeq(SelectSeq(RoleContent(memory), IsAssistant),
                    tlocal[t].prompt)

\* C29: the history is append-only: across every step of a chat() or
\* get_chat_history() call the message sequence before the step is a prefix
\* of the sequence after it, and a chat() call that stores its user message
\* adds an entry even when an identical message is stored already.
C29_HistoryAppendOnly ==
    [][(session = "ready")
         => /\ Len(memory) <= Len(memory')
            /\ SubSeq(memory', 1, Len(memory)) = memory
            /\ ThreadAppendUser(Caller) => Len(memory') = Len(memory) + 1
      ]_vars

\* two exchanges with the same user message are both in the history, and
\* get_chat_history has returned all four entries
C29_Witness ==
    /\ Len(memory) = 4
    /\ memory[1] = memory[3]
    /\ history = Serialize(memory).messages

\* b is what is left of a after entries were removed from its front
IsSuffix(b, a) ==
    /\ Len(b) <= Len(a)
    /\ SubSeq(a, Len(a) - Len(b) + 1, Len(a)) = b

\* C30: after can_make_request has trimmed the window every remaining entry
\* is at or after now - window_size, the trim removed entries from the oldest
\* end only, and the entries are always in non-decreasing time order.
C30_TrimKeepsRecentSuffix ==
    [][/\ \A i \in 1..Len(requests') - 1 : requests'[i] <= requests'[i + 1]
       /\ LimiterCheck
            => /\ \A i \in 1..Len(requests') :
                    requests'[i] >= now - WindowLength
               /\ IsSuffix(requests', requests)]_vars

\* a check has removed two old entries and kept a newer one
C30_Witness ==
    /\ session = "none"
    /\ lastCheck # <<>>
    /\ requests # <<>>
    /\ recorded >= Len(requests) + 2
    /\ \A i \in 1..Len(requests) : requests[i] >= now - WindowLength

\* C31: wait_for_capacity does not starve its caller and does not return
\* early: it returns with fewer than max_requests entries in the trimmed
\* window; a caller that was blocked returns at one of its one-second checks,
\* the check one second earlier found no capacity, and when the window held
\* exactly max_requests entries it returns after the oldest of them has left
\* the window and at most one second after that instant.
C31_WaitDoesNotStarve ==
    [][LimiterWait
         => /\ Len(requests') < max_requests
            /\ requests' = Trim(requests, now')
            /\ now' > now
                 => /\ (now' - now) % TicksPerSecond = 0
                    /\ ~CanMakeRequest(requests, now' - TicksPerSecond).ok
                    /\ Len(Trim(requests, now)) = max_requests
                         => /\ now' > Head(Trim(requests, now)) + WindowLength
                            /\ now' <= Head(Trim(requests, now))
                                         + WindowLength + TicksPerSecond]_vars

\* a blocked wait has returned: the clock is past every idle tick, and the
\* window keeps the entries that are still recent
C31_Witness ==
    /\ session = "none"
    /\ now > WindowLength + MaxTime + 1
    /\ requests # <<>>
    /\ Len(requests) < max_requests

\* every session is between two calls, has saved at least once, and no write
\* of a save has failed
AllSavesReturned ==
    \A s \in Sessions :
      At(s, "idle") /\ saver[s].result # "" /\ saver[s].faults = 0

\* C32: when two sessions share one memory file their saves exclude each
\* other: whatever the interleaving, once both have returned the target holds
\* a complete dump of the memory of one of the two and no .bak file is left.
\* (Stated for a file name whose backup is written to and removed from the
\* same path, which is the subject of C34.)
C32_SharedFileSavesExclusive ==
    (AllSavesReturned /\ SaveBackupPath(memory_file) = RestorePath(memory_file))
      => /\ \E s \in Sessions : fs[Target] = Serialize(saver[s].messages)
         /\ ~Exists(fs, RestorePath(memory_file))

\* C33: _make_api_request ends in one of two ways, the completion text of a
\* successful response or an exception; it never leaves the attempt loop
\* without a value, also not when the last attempt is answered with a 429.
C33_RequestReturnsTextOrRaises ==
    (pc = "reqdone") => reqResult.kind \in {"text", "raise"}

\* C34: whatever the name of the memory file, the path the prior file is
\* renamed to before the write is the path that is deleted after a good
\* write and renamed back from after a failed one: once the rename is done,
\* the prior content is found under that path.
C34_BackupPathAgrees ==
    \A s \in Sessions :
      (saver[s].pc \in {"open", "dump"} /\ saver[s].prior # <<>>)
        => fs[RestorePath(memory_file)] = saver[s].prior[1]

\* the content of p is the valid prior state of the save of s, or its new one
Recoverable(s, p) ==
    \/ fs[p] = saver[s].prior[1]
    \/ fs[p] = Serialize(saver[s].messages)

\* C35: at every step of a save that found a valid prior file, the target or
\* the path the save moves the prior file to holds the complete serialization
\* of the prior state or of the new one.
C35_OneValidCopyAtEveryStep ==
    \A s \in Sessions :
      (saver[s].pc \in InSave /\ saver[s].prior # <<>>)
        => \/ Recoverable(s, Target)
           \/ Recoverable(s, SaveBackupPath(memory_file))

\* the target is truncated, the write has not happened yet, and the prior
\* messages are in the backup only
C35_Witness ==
    /\ saver[Writer].pc = "dump"
    /\ saver[Writer].prior # <<>>
    /\ saver[Writer].prior[1].messages # <<>>
    /\ fs[Target] = Truncated
    /\ fs[SaveBackupPath(memory_file)] = saver[Writer].prior[1]

\* msgs begins with the messages pre
StartsWith(msgs, pre) ==
    /\ Len(pre) <= Len(msgs)
    /\ \A i \in 1..Len(pre) : msgs[i] = pre[i]

\* C36: the messages that were on disk when a save was interrupted by a crash
\* are not lost: once the session has been started again and a later exchange
\* has been saved, they are in memory or in a valid file on disk.
C36_HistoryKeptAcrossCrash ==
    \A s \in Sessions :
      (At(s, "idle") /\ saver[s].result = "saved" /\ saver[s].precrash # <<>>)
        => \/ StartsWith(saver[s].messages, saver[s].precrash[1])
           \/ \E p \in DOMAIN fs :
                /\ fs[p].kind = "json"
                /\ StartsWith(Deserialize(fs[p]), saver[s].precrash[1])

\* the workers that are inside self.chat.chat(message)
InChat(g) == {i \in 1..Len(g.threads) : g.threads[i].pc = "chat"}

\* C37: whatever the order of send events and worker steps, at most one
\* worker thread is inside chat(), and a send event that finds is_processing
\* set starts no thread and adds no message.
C37_OneExchangeInFlight ==
    [][/\ Cardinality(InChat(gui')) <= 1
       /\ (GuiSendCheck /\ gui.is_processing)
            => /\ gui'.threads = gui.threads
               /\ gui'.chat_history = gui.chat_history
               /\ gui'.main = "idle"]_vars

\* a second worker is in chat() after the first has ended, and a send event
\* was turned away in between
C37_Witness ==
    /\ Len(gui.threads) = 2
    /\ gui.threads[1].pc = "done"
    /\ gui.threads[2].pc = "chat"
    /\ gui.refused > 0

\* C38: every started worker resets is_processing, also when chat() or the
\* rendering of a message raises, and the window then takes input again.
C38_WorkerAlwaysUnlocks ==
    /\ \A i \in 1..MaxSends : WorkerAt(i, "chat") ~> WorkerAt(i, "done")
    /\ gui.is_processing ~> (~gui.is_processing /\ gui.enabled)

\* a worker whose rendering raised in the try block and again in the except
\* block has ended, and the window is unlocked
C38_Witness ==
    \E i \in Workers :
       /\ gui.threads[i].pc = "done"
       /\ gui.threads[i].raised
       /\ gui.threads[i].response # ""
       /\ ~gui.is_processing
       /\ gui.enabled

\* C39: after any number of log_error calls, recent_errors holds at most
\* MAX_RECENT_ERRORS entries, they are the latest ones in the order of their
\* arrival, and error_count is the number of calls.
C39_RecentErrorsAreTheLatest ==
    /\ Len(monitor.recent_errors) <= MAX_RECENT_ERRORS
    /\ monitor.error_count = Len(monitor.arrived)
    /\ Len(monitor.recent_errors) =
         (IF Len(monitor.arrived) < MAX_RECENT_ERRORS
          THEN Len(monitor.arrived) ELSE MAX_RECENT_ERRORS)
    /\ \A k \in 1..Len(monitor.recent_errors) :
         monitor.recent_errors[k] =
           monitor.arrived[Len(monitor.arrived)
                             - Len(monitor.recent_errors) + k]

\* more calls than the list keeps, with entries of both kinds in it
C39_Witness ==
    /\ monitor.error_count > MAX_RECENT_ERRORS
    /\ Len(monitor.recent_errors) = MAX_RECENT_ERRORS
    /\ monitor.arrived[1] # monitor.arrived[Len(monitor.arrived)]
    /\ monitor.recent_errors[1] # monitor.recent_errors[2]

====
